---- MODULE Spec2Model ----
(***************************************************************************)
(* Model of limo (src/mod.ts): a file handle that parses a file on         *)
(* construction, exposes the value through `data`, and serialises it back  *)
(* when [Symbol.dispose] runs.                                             *)
(*                                                                         *)
(* Texts are sequences of tokens (strings); offsets into a text are token  *)
(* indices counted from 0, as the character offsets of jsonc-parser are.   *)
(* Values are records [t, v]: t is the JavaScript type tag and v a flat    *)
(* sequence of strings (the characters of a string, or the alternating     *)
(* key, value, key, value ... entries of an object in insertion order).    *)
(***************************************************************************)
EXTENDS Integers, Sequences, FiniteSets, TLC

\* ------------------------------------------------------------------ bounds
\* Largest number of properties of an object the caller assigns to `data`.
MaxProps == 2
\* Largest number of in-place changes the caller makes to the loaded object.
MaxMutations == 1
\* The most calls of [Symbol.dispose]() on one handle.
MaxDisposals == 2

\* ------------------------------------------------------------------ values
Keys == {"a", "b", "c"}
Scalars == {"1", "2"}
Whitespace == {" ", "\n"}
Comments == {"//c"}
Trivia == Whitespace \cup Comments

Undefined == [t |-> "undefined", v |-> <<>>]
Null == [t |-> "null", v |-> <<>>]
Str(s) == [t |-> "string", v |-> s]
Obj(kv) == [t |-> "object", v |-> kv]

\* `x == null` of JavaScript: true of both undefined and null.
IsNullish(x) == x.t \in {"undefined", "null"}

NumProps(o) == Len(o.v) \div 2
KeyAt(o, i) == o.v[2 * i - 1]
ValAt(o, i) == o.v[2 * i]
KeySet(o) == {KeyAt(o, i) : i \in 1..NumProps(o)}
HasOwn(o, k) == o.t = "object" /\ k \in KeySet(o)
Lookup(o, k) == ValAt(o, CHOOSE i \in 1..NumProps(o) : KeyAt(o, i) = k)

\* assertEquals of the tests: objects are equal when they have the same keys
\* with the same values, whatever the insertion order.
DeepEqual(x, y) ==
  /\ x.t = y.t
  /\ IF x.t = "object"
       THEN /\ KeySet(x) = KeySet(y)
            /\ \A k \in KeySet(x) : Lookup(x, k) = Lookup(y, k)
       ELSE x.v = y.v

\* obj[k] = s on a JavaScript object: an own key keeps its position, a new
\* key is appended.
SetProp(o, k, s) ==
  IF k \in KeySet(o)
    THEN Obj([j \in 1..Len(o.v) |->
               IF j % 2 = 0 /\ o.v[j - 1] = k THEN s ELSE o.v[j]])
    ELSE Obj(o.v \o <<k, s>>)

\* delete obj[k]
DeleteProp(o, k) ==
  IF k \notin KeySet(o) THEN o
  ELSE LET i == CHOOSE j \in 1..NumProps(o) : KeyAt(o, j) = k
       IN Obj(SubSeq(o.v, 1, 2 * i - 2) \o SubSeq(o.v, 2 * i + 1, Len(o.v)))

\* The objects with at most n properties, in every insertion order.
RECURSIVE ObjectsUpTo(_)
ObjectsUpTo(n) ==
  IF n = 0 THEN {Obj(<<>>)}
  ELSE LET smaller == ObjectsUpTo(n - 1)
       IN smaller \cup
          {SetProp(o, k, s) : o \in {p \in smaller : NumProps(p) = n - 1},
                              k \in Keys, s \in Scalars}

Strings == {Str(<<>>), Str(<<" ">>), Str(<<"x">>), Str(<<"y">>)}

\* The custom-format tests keep lists of strings.
Arr(items) == [t |-> "array", v |-> items]
Items == {"x", "y"}

\* ------------------------------------------------------------------- texts
StripTokens(text, drop) == SelectSeq(text, LAMBDA tok : tok \notin drop)

\* String.prototype.trim() === "" : nothing but whitespace.
IsBlank(text) == \A i \in 1..Len(text) : text[i] \in Whitespace

\* Object.fromEntries over a flat key, value, key, value ... sequence: a
\* repeated key keeps its first position and its last value.
RECURSIVE FromEntries(_, _)
FromEntries(kv, acc) ==
  IF Len(kv) < 2 THEN acc
  ELSE FromEntries(SubSeq(kv, 3, Len(kv)), SetProp(acc, kv[1], kv[2]))

\* Concatenation of the texts rendered for the properties 1..n of o.
RECURSIVE JoinProps(_, _, _, _)
JoinProps(o, n, render(_, _), sep) ==
  IF n = 0 THEN <<>>
  ELSE IF n = 1 THEN render(KeyAt(o, 1), ValAt(o, 1))
  ELSE JoinProps(o, n - 1, render, sep) \o sep \o render(KeyAt(o, n), ValAt(o, n))

\* --------------------------------------------------------------- text file
TextParse(text) == [ok |-> TRUE, value |-> Str(text)]
TextStringify(data) == data.v

\* -------------------------------------------------------------------- JSON
\* JSON.stringify(data, null, 2)
JsonProp(k, s) == <<" ", " ", k, ":", " ", s>>
JsonStringify(data) ==
  IF data.t = "null" THEN <<"null">>
  ELSE IF NumProps(data) = 0 THEN <<"{", "}">>
  ELSE <<"{", "\n">> \o JoinProps(data, NumProps(data), JsonProp, <<",", "\n">>)
         \o <<"\n", "}">>

\* JSON.parse: whitespace between tokens is insignificant; anything else
\* that departs from the grammar (a comment, a stray or missing comma, a
\* missing brace) is a SyntaxError.
JsonWellFormedBody(body) ==
  \/ body = <<>>
  \/ /\ Len(body) % 4 = 3
     /\ \A j \in 1..Len(body) :
          CASE j % 4 = 1 -> body[j] \in Keys
            [] j % 4 = 2 -> body[j] = ":"
            [] j % 4 = 3 -> body[j] \in Scalars
            [] OTHER -> body[j] = ","
JsonParse(text) ==
  LET s == StripTokens(text, Whitespace)
      body == SubSeq(s, 2, Len(s) - 1)
  IN IF s = <<"null">> THEN [ok |-> TRUE, value |-> Null]
     ELSE IF /\ Len(s) >= 2
             /\ s[1] = "{"
             /\ s[Len(s)] = "}"
             /\ JsonWellFormedBody(body)
       THEN [ok |-> TRUE,
             value |-> FromEntries(StripTokens(body, {":", ","}), Obj(<<>>))]
       ELSE [ok |-> FALSE, value |-> Undefined]

\* -------------------------------------------------------------------- TOML
\* std_toml.stringify: one `key = value` line per property; nothing at all
\* for an object without properties.
TomlProp(k, s) == <<k, " ", "=", " ", s, "\n">>
\* A stringify that loses the last property.
TomlStringifyDroppingLast(data) ==
  JoinProps(data, IF NumProps(data) > 0 THEN NumProps(data) - 1 ELSE 0,
            TomlProp, <<>>)

TomlStringify(data) == JoinProps(data, NumProps(data), TomlProp, <<>>)

\* std_toml.parse: lines of `key = value`; a key defined twice is an error.
TomlParse(text) ==
  LET s == StripTokens(text, {" "})
      n == Len(s) \div 4
  IN IF /\ Len(s) % 4 = 0
        /\ \A j \in 1..Len(s) :
             CASE j % 4 = 1 -> s[j] \in Keys
               [] j % 4 = 2 -> s[j] = "="
               [] j % 4 = 3 -> s[j] \in Scalars
               [] OTHER -> s[j] = "\n"
        /\ \A i, j \in 1..n : i # j => s[4 * i - 3] # s[4 * j - 3]
       THEN [ok |-> TRUE,
             value |-> FromEntries(StripTokens(s, {"=", "\n"}), Obj(<<>>))]
       ELSE [ok |-> FALSE, value |-> Undefined]

\* -------------------------------------------------------------------- YAML
\* std_yaml.stringify: one `key: value` line per property, `{}` for an
\* object without properties, `null` for null.
YamlProp(k, s) == <<k, ":", " ", s, "\n">>
YamlStringify(data) ==
  IF data.t = "null" THEN <<"null", "\n">>
  ELSE IF NumProps(data) = 0 THEN <<"{", "}", "\n">>
  ELSE JoinProps(data, NumProps(data), YamlProp, <<>>)

\* std_yaml.parse of a block mapping, of the flow mapping `{}` or of null.
YamlParse(text) ==
  LET s == StripTokens(text, {" "})
      n == Len(s) \div 4
  IN IF s = <<"null", "\n">> THEN [ok |-> TRUE, value |-> Null]
     ELSE IF s = <<"{", "}", "\n">> THEN [ok |-> TRUE, value |-> Obj(<<>>)]
     ELSE IF /\ Len(s) % 4 = 0
             /\ \A j \in 1..Len(s) :
                  CASE j % 4 = 1 -> s[j] \in Keys
                    [] j % 4 = 2 -> s[j] = ":"
                    [] j % 4 = 3 -> s[j] \in Scalars
                    [] OTHER -> s[j] = "\n"
             /\ \A i, j \in 1..n : i # j => s[4 * i - 3] # s[4 * j - 3]
       THEN [ok |-> TRUE,
             value |-> FromEntries(StripTokens(s, {":", "\n"}), Obj(<<>>))]
       ELSE [ok |-> FALSE, value |-> Undefined]

\* ------------------------------------------------------ custom format (CSV)
\* text.split(",").map((s) => s.trim())
CsvParse(text) ==
  [ok |-> TRUE, value |-> Arr(StripTokens(text, {",", " "}))]
\* data.join(", ")
RECURSIVE CsvJoin(_)
CsvJoin(items) ==
  IF Len(items) = 0 THEN <<>>
  ELSE IF Len(items) = 1 THEN items
  ELSE <<items[1], ",", " ">> \o CsvJoin(Tail(items))
CsvStringify(data) == CsvJoin(data.v)

\* ------------------------------------------------------------------- JSONC
\* The scanner of jsonc-parser skips whitespace and comments between tokens.
RECURSIVE SkipTrivia(_, _)
SkipTrivia(text, i) ==
  IF i <= Len(text) /\ text[i] \in Trivia THEN SkipTrivia(text, i + 1) ELSE i

\* handleError(..., [], [CloseBraceToken, CommaToken]): skip to the next
\* closing brace or comma.
RECURSIVE SkipUntil(_, _)
SkipUntil(text, i) ==
  IF i > Len(text) \/ text[i] \in {"}", ","} THEN i ELSE SkipUntil(text, i + 1)

\* parseProperty at token i: a property node [key, val, off, end] where off
\* is the offset of the key and end the offset after the value; hasVal is
\* false when the colon or the value is missing (the error is recorded and
\* parsing goes on).
ScanProperty(text, i) ==
  IF i > Len(text) \/ text[i] \notin Keys
    THEN [found |-> FALSE, key |-> "", val |-> "", off |-> 0, end |-> 0,
          hasVal |-> FALSE, next |-> SkipUntil(text, i)]
    ELSE LET j == SkipTrivia(text, i + 1)
             k == SkipTrivia(text, j + 1)
         IN IF j <= Len(text) /\ text[j] = ":"
              THEN IF k <= Len(text) /\ text[k] \in Keys \cup Scalars
                     THEN [found |-> TRUE, key |-> text[i], val |-> text[k],
                           off |-> i - 1, end |-> k, hasVal |-> TRUE,
                           next |-> k + 1]
                     ELSE [found |-> TRUE, key |-> text[i], val |-> "",
                           off |-> i - 1, end |-> j, hasVal |-> FALSE,
                           next |-> SkipUntil(text, k)]
              ELSE [found |-> TRUE, key |-> text[i], val |-> "",
                    off |-> i - 1, end |-> i, hasVal |-> FALSE,
                    next |-> SkipUntil(text, j)]

\* parseObject from token i on (the opening brace is consumed): the
\* property nodes, in text order.  Errors (a stray comma, a missing comma,
\* a missing closing brace) are recorded by the library and parsing goes on.
RECURSIVE ScanObject(_, _, _)
ScanObject(text, i, acc) ==
  LET t == SkipTrivia(text, i)
  IN IF t > Len(text) \/ text[t] = "}" THEN acc
     ELSE LET p == ScanProperty(text,
                     IF text[t] = "," THEN SkipTrivia(text, t + 1) ELSE t)
          IN ScanObject(text, p.next,
                        IF p.found
                          THEN Append(acc, [key |-> p.key, val |-> p.val,
                                            off |-> p.off, end |-> p.end,
                                            hasVal |-> p.hasVal])
                          ELSE acc)

\* jsonc_parser.parseTree: the root node.
ParseTree(text) ==
  LET r == SkipTrivia(text, 1)
  IN IF r > Len(text) THEN [kind |-> "none", off |-> 0, props |-> <<>>]
     ELSE IF text[r] = "{"
       THEN [kind |-> "object", off |-> r - 1,
             props |-> ScanObject(text, r + 1, <<>>)]
       ELSE [kind |-> "literal", off |-> r - 1, props |-> <<>>]

RECURSIVE PropsToEntries(_)
PropsToEntries(props) ==
  IF props = <<>> THEN <<>>
  ELSE (IF props[1].hasVal THEN <<props[1].key, props[1].val>> ELSE <<>>)
         \o PropsToEntries(Tail(props))

\* jsonc_parser.parse: fault tolerant, it never throws; it returns whatever
\* value it could build.
JsoncParse(text) ==
  LET tree == ParseTree(text)
  IN [ok |-> TRUE,
      value |-> CASE tree.kind = "object" ->
                       FromEntries(PropsToEntries(tree.props), Obj(<<>>))
                  [] tree.kind = "literal" ->
                       [t |-> "literal", v |-> <<text[tree.off + 1]>>]
                  [] OTHER -> Undefined]

Edit(offset, length, content) ==
  [offset |-> offset, length |-> length, content |-> content]

\* The index of the first property of the object named key, 0 if none.
FirstIndex(props, key) ==
  LET found == {i \in 1..Len(props) : props[i].key = key /\ props[i].hasVal}
  IN IF found = {} THEN 0 ELSE CHOOSE i \in found : \A j \in found : i <= j

\* setProperty of jsonc-parser once the property is looked up (idx, 0 when
\* the object has no such property): the one edit that removes, replaces or
\* inserts it.
setPropertyAt(tree, idx, key, isDelete, val) ==
  IF tree.kind = "none"
    THEN IF isDelete
           THEN [threw |-> TRUE, edits |-> <<>>]
           ELSE [threw |-> FALSE,
                 edits |-> <<Edit(0, 0, <<"{", key, ":", val, "}">>)>>]
  ELSE IF tree.kind # "object"
    THEN [threw |-> ~isDelete, edits |-> <<>>]
  ELSE IF idx > 0
    THEN IF isDelete
           THEN IF idx > 1
                  THEN [threw |-> FALSE,
                        edits |-> <<Edit(tree.props[idx - 1].end,
                                         tree.props[idx].end
                                           - tree.props[idx - 1].end,
                                         <<>>)>>]
                ELSE IF Len(tree.props) > 1
                  THEN [threw |-> FALSE,
                        edits |-> <<Edit(tree.off + 1,
                                         tree.props[2].off - (tree.off + 1),
                                         <<>>)>>]
                ELSE [threw |-> FALSE,
                      edits |-> <<Edit(tree.off + 1,
                                       tree.props[1].end - (tree.off + 1),
                                       <<>>)>>]
           ELSE [threw |-> FALSE,
                 edits |-> <<Edit(tree.props[idx].end - 1, 1, <<val>>)>>]
  ELSE IF isDelete
    THEN [threw |-> FALSE, edits |-> <<>>]
  ELSE IF Len(tree.props) > 0
    THEN [threw |-> FALSE,
          edits |-> <<Edit(tree.props[Len(tree.props)].end, 0,
                           <<",", key, ":", " ", val>>)>>]
    ELSE [threw |-> FALSE,
          edits |-> <<Edit(tree.off + 1, 0, <<key, ":", " ", val>>)>>]

setProperty(tree, key, isDelete, val) ==
  setPropertyAt(tree, FirstIndex(tree.props, key), key, isDelete, val)

\* jsonc_parser.modify(text, [key], value, {}) without formatting options:
\* setProperty of jsonc-parser.  isDelete stands for value === undefined.
Modify(text, key, isDelete, val) ==
  setProperty(ParseTree(text), key, isDelete, val)

\* The comparator of applyEdits: by offset, then by length.
EditLeq(e, f) ==
  e.offset < f.offset \/ (e.offset = f.offset /\ e.length <= f.length)

\* Array.prototype.sort is stable: an edit goes after the edits that are
\* not greater than it.
RECURSIVE SortEdits(_)
SortEdits(edits) ==
  IF Len(edits) <= 1 THEN edits
  ELSE LET front == SortEdits(SubSeq(edits, 1, Len(edits) - 1))
           e == edits[Len(edits)]
           before == {i \in 1..Len(front) : EditLeq(front[i], e)}
           cut == IF before = {} THEN 0
                  ELSE CHOOSE i \in before : \A j \in before : j <= i
       IN SubSeq(front, 1, cut) \o <<e>> \o SubSeq(front, cut + 1, Len(front))

\* edit.applyEdit
ApplyEdit(text, e) ==
  SubSeq(text, 1, e.offset) \o e.content
    \o SubSeq(text, e.offset + e.length + 1, Len(text))

\* The loop of applyEdits, from the last sorted edit to the first: an edit
\* that reaches beyond the start of the edit applied before it is an
\* 'Overlapping edit' error.
RECURSIVE ApplySorted(_, _, _, _)
ApplySorted(text, sorted, i, lastModifiedOffset) ==
  IF i = 0 THEN [threw |-> FALSE, text |-> text]
  ELSE IF sorted[i].offset + sorted[i].length <= lastModifiedOffset
    THEN ApplySorted(ApplyEdit(text, sorted[i]), sorted, i - 1,
                     sorted[i].offset)
    ELSE [threw |-> TRUE, text |-> text]

\* jsonc_parser.applyEdits
ApplyEdits(text, edits) ==
  ApplySorted(text, SortEdits(edits), Len(edits), Len(text))

\* applyEdits(newText, format(newText, undefined, {})): the formatter only
\* replaces the whitespace between tokens; comments and all other tokens
\* stay, in their order.
RECURSIVE Respace(_, _)
Respace(s, i) ==
  IF i > Len(s) THEN <<>>
  ELSE (CASE s[i] = ":" -> <<":", " ">>
          [] s[i] = "," -> <<",", "\n">>
          [] s[i] = "{" /\ i < Len(s) /\ s[i + 1] # "}" -> <<"{", "\n">>
          [] s[i] = "}" /\ i > 1 /\ s[i - 1] # "{" -> <<"\n", "}">>
          [] s[i] \in Comments -> <<" ", s[i]>>
          [] OTHER -> <<s[i]>>)
       \o Respace(s, i + 1)
Format(text) == Respace(StripTokens(text, Whitespace), 1)

\* edits.push(...more)
PushEdits(a, b) ==
  [threw |-> a.threw \/ b.threw, edits |-> a.edits \o b.edits]

\* The edits of the first loop of preserveFormat: a deletion for each key
\* of oldData that newData does not own.
RECURSIVE DeletionEdits(_, _, _, _)
DeletionEdits(oldText, oldData, newData, i) ==
  IF i > NumProps(oldData) THEN [threw |-> FALSE, edits |-> <<>>]
  ELSE IF HasOwn(newData, KeyAt(oldData, i))
    THEN DeletionEdits(oldText, oldData, newData, i + 1)
    ELSE PushEdits(Modify(oldText, KeyAt(oldData, i), TRUE, ""),
                   DeletionEdits(oldText, oldData, newData, i + 1))

\* A second loop that skips the entries whose value oldText already has.
RECURSIVE UpsertEditsChangedOnly(_, _, _)
UpsertEditsChangedOnly(oldText, newData, i) ==
  IF i > NumProps(newData) THEN [threw |-> FALSE, edits |-> <<>>]
  ELSE IF /\ HasOwn(JsoncParse(oldText).value, KeyAt(newData, i))
          /\ Lookup(JsoncParse(oldText).value, KeyAt(newData, i))
               = ValAt(newData, i)
    THEN UpsertEditsChangedOnly(oldText, newData, i + 1)
    ELSE PushEdits(Modify(oldText, KeyAt(newData, i), FALSE, ValAt(newData, i)),
                   UpsertEditsChangedOnly(oldText, newData, i + 1))

\* The edits of the second loop: an upsert for each entry of newData.
RECURSIVE UpsertEdits(_, _, _)
UpsertEdits(oldText, newData, i) ==
  IF i > NumProps(newData) THEN [threw |-> FALSE, edits |-> <<>>]
  ELSE PushEdits(Modify(oldText, KeyAt(newData, i), FALSE, ValAt(newData, i)),
                 UpsertEdits(oldText, newData, i + 1))

\* The last two statements of preserveFormat on the text the edits gave.
FormatApplied(applied) ==
  IF applied.threw THEN [threw |-> TRUE, text |-> <<>>]
  ELSE [threw |-> FALSE, text |-> Format(applied.text)]

\* applyEdits(oldText, edits) and the formatting of its result; an error of
\* modify or of applyEdits leaves preserveFormat.
ApplyAndFormat(oldText, all) ==
  IF all.threw THEN [threw |-> TRUE, text |-> <<>>]
  ELSE FormatApplied(ApplyEdits(oldText, all.edits))

\* preserveFormat of createLimoJsonc
JsoncPreserveFormat(oldText, oldData, newData) ==
  ApplyAndFormat(oldText,
                 PushEdits(DeletionEdits(oldText, oldData, newData, 1),
                           UpsertEdits(oldText, newData, 1)))

\* --------------------------------------------------------------- factories
\* The parseOptions each factory hands to LimoFile, by the name of the
\* function in each slot ("none": the adapter has no preserveFormat).
createLimoText ==
  [parse |-> "text", stringify |-> "text", preserveFormat |-> "none"]
createLimoJson ==
  [parse |-> "json", stringify |-> "json", preserveFormat |-> "none"]
createLimoJsonc ==
  [parse |-> "jsonc", stringify |-> "json", preserveFormat |-> "jsonc"]
createLimoToml ==
  [parse |-> "toml", stringify |-> "toml", preserveFormat |-> "none"]
createLimoYaml ==
  [parse |-> "yaml", stringify |-> "yaml", preserveFormat |-> "none"]
\* createLimoCustom(path, csvFormat): the adapter is the caller's.
createLimoCustom ==
  [parse |-> "csv", stringify |-> "csv", preserveFormat |-> "none"]

BuiltIn ==
  {createLimoText, createLimoJson, createLimoJsonc, createLimoToml,
   createLimoYaml}
Factories == BuiltIn \cup {createLimoCustom}

\* this.#parseOptions.parse(text)
CallParse(po, text) ==
  CASE po.parse = "text" -> TextParse(text)
    [] po.parse = "json" -> JsonParse(text)
    [] po.parse = "jsonc" -> JsoncParse(text)
    [] po.parse = "toml" -> TomlParse(text)
    [] po.parse = "yaml" -> YamlParse(text)
    [] OTHER -> CsvParse(text)

\* this.#parseOptions.stringify(data)
CallStringify(po, data) ==
  CASE po.stringify = "text" -> TextStringify(data)
    [] po.stringify = "json" -> JsonStringify(data)
    [] po.stringify = "toml" -> TomlStringify(data)
    [] po.stringify = "yaml" -> YamlStringify(data)
    [] OTHER -> CsvStringify(data)

\* this.#parseOptions.preserveFormat(text, oldData, data)
CallPreserveFormat(po, oldText, oldData, newData) ==
  JsoncPreserveFormat(oldText, oldData, newData)

\* ------------------------------------------------------------------ inputs
\* The validators of the tests: `"a" in data` on an object, and
\* `data === "x"` on a text.  "none": no validator is configured.
Validators(po) == IF po.parse = "text" THEN {"none", "isX"} ELSE {"none", "hasA"}
Validate(validator, value) ==
  CASE validator = "hasA" -> HasOwn(value, "a")
    [] validator = "isX" -> value = Str(<<"x">>)
    [] OTHER -> TRUE

\* An option the caller may leave out.
OptionalBool == {"omitted", "true", "false"}
\* The options tried: each setting of allowNoExist without a validator, and
\* each setting of allowValidatorFailure with one (_read looks at the first
\* only when the file is missing and at the second only when a validator
\* rejects what was parsed).
Options(po) ==
  {o \in [validator : Validators(po), allowNoExist : OptionalBool,
          allowValidatorFailure : OptionalBool] :
     IF o.validator = "none" THEN o.allowValidatorFailure = "omitted"
     ELSE o.allowNoExist = "omitted"}

NoFile == [exists |-> FALSE, content |-> <<>>]
File(content) == [exists |-> TRUE, content |-> content]

\* What the path may hold before the handle is opened.
Contents(po) ==
  CASE po.parse = "text" -> {<<>>, <<" ">>, <<"x">>, <<"y">>}
    [] po.parse = "json" ->
         {<<>>, <<"\n">>, <<"{", "}">>, <<"null">>,
          JsonStringify(Obj(<<"a", "1">>)), JsonStringify(Obj(<<"b", "2">>)),
          <<"{", "a", ":", "1">>}
    [] po.parse = "jsonc" ->
         {<<" ">>, <<"{", "}">>,
          <<"{", "a", ":", " ", "1", "}", " ", "//c">>,
          <<"{", "a", ":", "1", ",", "b", ":", "2", "}">>,
          <<"{", "//c", "b", ":", "2", ",", "c", ":", "1", "}">>,
          <<"{", "a", ":", " ", "1", ",", " ", "}", " ", "//c">>,
          <<"{", "a", ":", "1", ",", "//c", "b", ":", "2", "}">>,
          <<"{", "a", ":", "1">>}
    [] po.parse = "toml" ->
         {<<>>, TomlStringify(Obj(<<"a", "1">>)),
          TomlStringify(Obj(<<"b", "2", "c", "1">>)), <<"a", "=">>}
    [] po.parse = "yaml" ->
         {<<>>, YamlStringify(Obj(<<"a", "1">>)),
          YamlStringify(Obj(<<"b", "2", "c", "1">>)), <<"a", ":", ":">>}
    [] OTHER -> {<<>>, <<"x", ",", "y">>}
Files(po) == {NoFile} \cup {File(c) : c \in Contents(po)}

RECURSIVE ListsUpTo(_)
ListsUpTo(n) ==
  IF n = 0 THEN {<<>>}
  ELSE ListsUpTo(n - 1) \cup
       {Append(l, x) : l \in {m \in ListsUpTo(n - 1) : Len(m) = n - 1},
                       x \in Items}

\* What the caller may assign to `data`: Limo<T | undefined> lets undefined
\* through, and T is unconstrained for JSON and YAML.
SetValues(po) ==
  CASE po.parse = "text" -> Strings \cup {Undefined}
    [] po.parse \in {"json", "yaml"} ->
         ObjectsUpTo(MaxProps) \cup {Undefined, Null}
    [] po.parse \in {"jsonc", "toml"} -> ObjectsUpTo(MaxProps) \cup {Undefined}
    [] OTHER -> {Arr(l) : l \in ListsUpTo(MaxProps)} \cup {Undefined}

\* ------------------------------------------------------------------- state
VARIABLES
  file,     \* what the path holds: [exists, content]
  factory,  \* the factory the caller uses on the path (its parseOptions)
  handle,   \* the LimoFile instance; handle.state = "none" when there is none
  other,    \* a second LimoFile on the same path, held by another caller
  pc,       \* the caller: "start", "body" (inside the `using` block), "done"
  exit,     \* how the block was left: "none", "normal", "return", "throw"
  err,      \* the error the caller observes, [kind, cause]
  got,      \* the value the last `get data` returned, NotRead before it
  trace     \* history: the options given and the file seen by the
            \* constructor, the branch _read took, the number of in-place
            \* changes and of disposals, what the last _write did, which
            \* of the two handles was disposed last and whether the
            \* second one wrote, and whether both were open at once

vars == <<file, factory, handle, other, pc, exit, err, got, trace>>

\* #text: string | undefined
NoText == [has |-> FALSE, s |-> <<>>]
SomeText(s) == [has |-> TRUE, s |-> s]

\* The errors of LimoFile, by the text their message starts with.
NotFound == "File not found"
ParseFailure == "Failed to parse"
ValidationFailure == "Invalid data"
WriteFailure == "Failed to write"

NoError == [kind |-> "none", cause |-> ""]
Error(kind, cause) == [kind |-> kind, cause |-> cause]

NotRead == [t |-> "not read", v |-> <<>>]
\* No call of `set data` yet.
Unassigned == [t |-> "unassigned", v |-> <<>>]

DefaultOptions ==
  [validator |-> "none", allowNoExist |-> "omitted",
   allowValidatorFailure |-> "omitted"]

\* resolveOptions without the `?? true`: an omitted allowNoExist is falsy.
resolveOptionsNoDefault(options) ==
  [validator |-> options.validator,
   allowNoExist |-> options.allowNoExist = "true",
   allowValidatorFailure |-> options.allowValidatorFailure]

\* resolveOptions: allowNoExist defaults to true; the other two are copied.
resolveOptions(options) ==
  [validator |-> options.validator,
   allowNoExist |-> IF options.allowNoExist = "omitted" THEN TRUE
                    ELSE options.allowNoExist = "true",
   allowValidatorFailure |-> options.allowValidatorFailure]

NoHandle ==
  [state |-> "none", parseOptions |-> createLimoText,
   options |-> resolveOptions(DefaultOptions),
   data |-> Undefined, oldData |-> Undefined, text |-> NoText,
   shared |-> FALSE]

NoTrace ==
  [given |-> DefaultOptions, opened |-> NoFile, outcome |-> "none",
   calls |-> <<>>, assigned |-> Unassigned, mutations |-> 0, disposals |-> 0, writes |-> 0,
   wrote |-> FALSE, serializer |-> "none", ioFailed |-> FALSE,
   last |-> "none", otherWrote |-> FALSE, both |-> FALSE]

\* The try block of _read returning the rejected data under
\* allowValidatorFailure instead of undefined.
tryParseKeepingData(text, po, ro) ==
  LET parsed == CallParse(po, text)
  IN IF ~parsed.ok
       THEN [threw |-> TRUE, thrown |-> Error("SyntaxError", ""),
             data |-> Undefined, outcome |-> "parse error",
             calls |-> <<"parse">>]
     ELSE IF ro.validator # "none" /\ ~Validate(ro.validator, parsed.value)
       THEN IF ro.allowValidatorFailure = "true"
              THEN [threw |-> FALSE, thrown |-> NoError, data |-> parsed.value,
                    outcome |-> "rejected", calls |-> <<"parse", "validator">>]
              ELSE [threw |-> TRUE, thrown |-> Error(ValidationFailure, ""),
                    data |-> Undefined, outcome |-> "rejected",
                    calls |-> <<"parse", "validator">>]
     ELSE [threw |-> FALSE, thrown |-> NoError, data |-> parsed.value,
           outcome |-> "loaded",
           calls |-> IF ro.validator # "none" THEN <<"parse", "validator">>
                     ELSE <<"parse">>]

\* The try block of _read (lines 88-96) on a non-blank text: it returns the
\* data, or throws the parser's error or `Error("Invalid data: <text>")`.
tryParse(text, po, ro) ==
  LET parsed == CallParse(po, text)
  IN IF ~parsed.ok
       THEN [threw |-> TRUE, thrown |-> Error("SyntaxError", ""),
             data |-> Undefined, outcome |-> "parse error",
             calls |-> <<"parse">>]
     ELSE IF ro.validator # "none" /\ ~Validate(ro.validator, parsed.value)
       THEN IF ro.allowValidatorFailure = "true"
              THEN [threw |-> FALSE, thrown |-> NoError, data |-> Undefined,
                    outcome |-> "rejected", calls |-> <<"parse", "validator">>]
              ELSE [threw |-> TRUE, thrown |-> Error(ValidationFailure, ""),
                    data |-> Undefined, outcome |-> "rejected",
                    calls |-> <<"parse", "validator">>]
     ELSE [threw |-> FALSE, thrown |-> NoError, data |-> parsed.value,
           outcome |-> "loaded",
           calls |-> IF ro.validator # "none" THEN <<"parse", "validator">>
                     ELSE <<"parse">>]

\* _read swallowing what the try block throws and opening with no data.
readTriedSwallowing(text, tried) ==
  [threw |-> FALSE, err |-> NoError,
   data |-> IF tried.threw THEN Undefined ELSE tried.data,
   text |-> SomeText(text), outcome |-> tried.outcome, calls |-> tried.calls]

\* The catch block of _read, and its return when nothing was thrown.
readTried(text, tried) ==
  IF tried.threw
    THEN [threw |-> TRUE, err |-> Error(ParseFailure, tried.thrown.kind),
          data |-> Undefined, text |-> NoText, outcome |-> tried.outcome,
          calls |-> tried.calls]
    ELSE [threw |-> FALSE, err |-> NoError, data |-> tried.data,
          text |-> SomeText(text), outcome |-> tried.outcome,
          calls |-> tried.calls]

\* _read without the blank-file check: a blank text goes to the adapter.
readDeferringBlank(f, po, ro) ==
  IF f.exists
    THEN readTried(f.content, tryParse(f.content, po, ro))
  ELSE IF ~ro.allowNoExist
    THEN [threw |-> TRUE, err |-> Error(NotFound, ""),
          data |-> Undefined, text |-> NoText, outcome |-> "missing",
          calls |-> <<>>]
  ELSE [threw |-> FALSE, err |-> NoError, data |-> Undefined,
        text |-> NoText, outcome |-> "missing", calls |-> <<>>]

\* LimoFile._read.  Whatever the try block throws, the validator's error
\* included, is caught and thrown again as
\* `Failed to parse <path>: <the error caught>`.
read(f, po, ro) ==
  IF f.exists
    THEN IF IsBlank(f.content)
           THEN [threw |-> FALSE, err |-> NoError, data |-> Undefined,
                 text |-> SomeText(f.content), outcome |-> "blank",
                 calls |-> <<>>]
           ELSE readTried(f.content, tryParse(f.content, po, ro))
  ELSE IF ~ro.allowNoExist
    THEN [threw |-> TRUE, err |-> Error(NotFound, ""),
          data |-> Undefined, text |-> NoText, outcome |-> "missing",
          calls |-> <<>>]
  ELSE [threw |-> FALSE, err |-> NoError, data |-> Undefined,
        text |-> NoText, outcome |-> "missing", calls |-> <<>>]

\* A _write that asks only for the adapter's preserveFormat and the text.
usePreserveWithoutSnapshot(h) ==
  /\ h.parseOptions.preserveFormat # "none"
  /\ h.text.has

\* The condition under which _write calls preserveFormat.
usePreserve(h) ==
  /\ h.parseOptions.preserveFormat # "none"
  /\ h.text.has
  /\ ~IsNullish(h.oldData)

\* The content _write computes: preserveFormat(text, oldData, data) or
\* stringify(data); threw when the serializer throws.
serialize(h) ==
  IF usePreserve(h)
    THEN [serializer |-> "preserveFormat"]
           @@ CallPreserveFormat(h.parseOptions, h.text.s, h.oldData, h.data)
    ELSE [serializer |-> "stringify", threw |-> FALSE,
          text |-> CallStringify(h.parseOptions, h.data)]

\* A _write whose catch block drops the error instead of rethrowing it.
writeContentSwallowing(h, f, ioFails, s) ==
  IF IsNullish(h.data)
    THEN [wrote |-> FALSE, serializer |-> "none", ioFailed |-> FALSE,
          err |-> NoError, file |-> f]
  ELSE IF s.threw
    THEN [wrote |-> FALSE, serializer |-> s.serializer, ioFailed |-> FALSE,
          err |-> NoError, file |-> f]
  ELSE IF ioFails
    THEN [wrote |-> FALSE, serializer |-> s.serializer, ioFailed |-> TRUE,
          err |-> NoError, file |-> f]
  ELSE [wrote |-> TRUE, serializer |-> s.serializer, ioFailed |-> FALSE,
        err |-> NoError, file |-> File(s.text)]

\* _write once the content s is computed.
writeContent(h, f, ioFails, s) ==
  IF IsNullish(h.data)
    THEN [wrote |-> FALSE, serializer |-> "none", ioFailed |-> FALSE,
          err |-> NoError, file |-> f]
  ELSE IF s.threw
    THEN [wrote |-> FALSE, serializer |-> s.serializer, ioFailed |-> FALSE,
          err |-> Error(WriteFailure, "Error: Overlapping edit"),
          file |-> f]
  ELSE IF ioFails
    THEN [wrote |-> FALSE, serializer |-> s.serializer, ioFailed |-> TRUE,
          err |-> Error(WriteFailure, "writeFileSync"), file |-> f]
  ELSE [wrote |-> TRUE, serializer |-> s.serializer, ioFailed |-> FALSE,
        err |-> NoError, file |-> File(s.text)]

\* _write appending to the file instead of replacing its content.
writeAppending(h, f, ioFails) ==
  writeContent(h, f, ioFails, [serialize(h) EXCEPT !.text = f.content \o @])

\* LimoFile._write.  ioFails: writeFileSync throws.  The result tells which
\* serializer ran, whether the file was written, the error thrown, and the
\* file afterwards.
write(h, f, ioFails) == writeContent(h, f, ioFails, serialize(h))

\* --------------------------------------------------------------- operations
Init ==
  /\ factory \in Factories
  /\ file \in Files(factory)
  /\ handle = NoHandle
  /\ pc = "start"
  /\ exit = "none"
  /\ err = NoError
  /\ got = NotRead
  /\ trace = NoTrace
  /\ other = NoHandle

\* A constructor that creates the missing file it was allowed to open.
constructorCreating(options, ro, r) ==
  /\ pc = "start"
  /\ trace' = [trace EXCEPT !.given = options, !.opened = file,
                            !.outcome = r.outcome, !.calls = r.calls,
                            !.both = ~r.threw /\ other.state = "open"]
  /\ IF r.threw
       THEN /\ handle' = NoHandle
            /\ pc' = "done"
            /\ exit' = "throw"
            /\ err' = r.err
       ELSE /\ handle' = [state |-> "open", parseOptions |-> factory,
                          options |-> ro, data |-> r.data,
                          oldData |-> r.data, text |-> r.text,
                          shared |-> TRUE]
            /\ pc' = "body"
            /\ UNCHANGED <<exit, err>>
  /\ file' = IF ~r.threw /\ ~file.exists THEN File(<<>>) ELSE file
  /\ UNCHANGED <<factory, other, got>>

\* The constructor once _read has run (r: what it returned or threw).
constructor(options, ro, r) ==
  /\ pc = "start"
  /\ trace' = [trace EXCEPT !.given = options, !.opened = file,
                            !.outcome = r.outcome, !.calls = r.calls,
                            !.both = ~r.threw /\ other.state = "open"]
  /\ IF r.threw
       THEN /\ handle' = NoHandle
            /\ pc' = "done"
            /\ exit' = "throw"
            /\ err' = r.err
       ELSE /\ handle' = [state |-> "open", parseOptions |-> factory,
                          options |-> ro, data |-> r.data,
                          oldData |-> r.data, text |-> r.text,
                          shared |-> TRUE]
            /\ pc' = "body"
            /\ UNCHANGED <<exit, err>>
  /\ UNCHANGED <<file, factory, other, got>>

\* `using h = createLimoX(path, options)`: the LimoFile constructor.  When
\* _read throws there is no handle and nothing is registered for disposal;
\* the error leaves the block.
Construct(options) ==
  constructor(options, resolveOptions(options),
              read(file, factory, resolveOptions(options)))

\* get data
GetData ==
  /\ pc = "body"
  /\ got # handle.data
  /\ got' = handle.data
  /\ UNCHANGED <<file, factory, handle, other, pc, exit, err, trace>>

\* A setter that ignores an absent value and keeps the data it has.
SetDataDefined(value) ==
  /\ pc = "body"
  /\ handle' = [handle EXCEPT !.data = IF IsNullish(value) THEN @ ELSE value,
                              !.shared = FALSE]
  /\ trace' = [trace EXCEPT !.assigned = value]
  /\ got' = NotRead
  /\ UNCHANGED <<file, factory, other, pc, exit, err>>

\* set data(value): #data is rebound; #oldData keeps the object it has.
SetData(value) ==
  /\ pc = "body"
  /\ handle' = [handle EXCEPT !.data = value, !.shared = FALSE]
  /\ trace' = [trace EXCEPT !.assigned = value]
  /\ got' = NotRead
  /\ UNCHANGED <<file, factory, other, pc, exit, err>>

\* The caller changes the object `get data` returned, in place.  The
\* constructor stored one object in both #data and #oldData
\* (this.#data = this.#oldData = data), so until `set data` rebinds #data
\* the change shows in both.
\* The changes tried: data.c = 1, data.a = 2, delete data.a, data.push("y").
Mutations(value) ==
  CASE value.t = "object" ->
         {SetProp(value, "c", "1"), SetProp(value, "a", "2"),
          DeleteProp(value, "a")}
    [] value.t = "array" -> {Arr(Append(value.v, "y"))}
    [] OTHER -> {}
MutateData(value) ==
  /\ pc = "body"
  /\ handle.shared
  /\ value \in Mutations(handle.data)
  /\ value # handle.data
  /\ trace.mutations < MaxMutations
  /\ trace' = [trace EXCEPT !.mutations = @ + 1]
  /\ handle' = [handle EXCEPT !.data = value, !.oldData = value]
  /\ got' = value
  /\ UNCHANGED <<file, factory, other, pc, exit, err>>

ExitKinds == {"normal", "return", "throw"}

\* A disposal that drops the text the handle loaded.
disposeClearing(kind, w) ==
  /\ pc = "body"
  /\ pc' = "done"
  /\ exit' = kind
  /\ handle' = [handle EXCEPT !.state = "disposed", !.text = NoText]
  /\ file' = w.file
  /\ trace' = [trace EXCEPT !.disposals = @ + 1,
                            !.writes = IF w.wrote THEN @ + 1 ELSE @,
                            !.wrote = w.wrote,
                            !.serializer = w.serializer,
                            !.ioFailed = w.ioFailed,
                            !.last = "handle"]
  /\ err' = IF w.err # NoError
              THEN IF kind = "throw"
                     THEN Error("SuppressedError", w.err.kind)
                     ELSE w.err
              ELSE IF kind = "throw" THEN Error("caller", "") ELSE NoError
  /\ got' = NotRead
  /\ UNCHANGED <<factory, other>>

\* [Symbol.dispose]() once _write has run (w: what it did).
dispose(kind, w) ==
  /\ pc = "body"
  /\ pc' = "done"
  /\ exit' = kind
  /\ handle' = [handle EXCEPT !.state = "disposed"]
  /\ file' = w.file
  /\ trace' = [trace EXCEPT !.disposals = @ + 1,
                            !.writes = IF w.wrote THEN @ + 1 ELSE @,
                            !.wrote = w.wrote,
                            !.serializer = w.serializer,
                            !.ioFailed = w.ioFailed,
                            !.last = "handle"]
  /\ err' = IF w.err # NoError
              THEN IF kind = "throw"
                     THEN Error("SuppressedError", w.err.kind)
                     ELSE w.err
              ELSE IF kind = "throw" THEN Error("caller", "") ELSE NoError
  /\ got' = NotRead
  /\ UNCHANGED <<factory, other>>

\* A disposal that reads the file again and serializes against what the
\* path holds now.
ExitScopeRereading(kind, ioFails) ==
  dispose(kind,
          write([handle EXCEPT !.text = IF file.exists
                                          THEN SomeText(file.content)
                                          ELSE NoText],
                file, ioFails))

\* The block is left (by running off its end, by return, or by an
\* exception thrown in it) and the runtime calls handle[Symbol.dispose](),
\* which calls _write.  An error of _write leaves the block; when the block
\* was already left by an exception the runtime wraps both in a
\* SuppressedError.
ExitScope(kind, ioFails) == dispose(kind, write(handle, file, ioFails))

Next ==
  \/ \E options \in Options(factory) : Construct(options)
  \/ GetData
  \/ \E value \in SetValues(factory) : SetData(value)
  \/ \E value \in Mutations(handle.data) : MutateData(value)
  \/ \E kind \in ExitKinds : ExitScope(kind, FALSE)
  \/ ExitScope("normal", TRUE)

Spec == Init /\ [][Next]_vars

\* ---------------------------------------------- the handle after disposal
\* LimoFile keeps no record of having been disposed: the caller who still
\* holds the object can assign to `data` and call [Symbol.dispose]() again.
\* What is assigned after a disposal: one value of the adapter's type, or
\* undefined.
LateValues(po) ==
  CASE po.parse = "text" -> {Str(<<"y">>), Undefined}
    [] po.parse = "csv" -> {Arr(<<"y">>), Undefined}
    [] OTHER -> {Obj(<<"c", "1">>), Undefined}

\* set data(value) on a disposed handle.
SetDataDisposed(value) ==
  /\ pc = "done"
  /\ handle.state = "disposed"
  /\ trace.disposals < MaxDisposals
  /\ value # handle.data
  /\ handle' = [handle EXCEPT !.data = value, !.shared = FALSE]
  /\ trace' = [trace EXCEPT !.assigned = value]
  /\ UNCHANGED <<file, factory, other, pc, exit, err, got>>

\* [Symbol.dispose]() on a disposed handle, once _write has run.
disposeAgain(w) ==
  /\ pc = "done"
  /\ handle.state = "disposed"
  /\ trace.disposals < MaxDisposals
  /\ file' = w.file
  /\ trace' = [trace EXCEPT !.disposals = @ + 1,
                            !.writes = IF w.wrote THEN @ + 1 ELSE @,
                            !.wrote = w.wrote,
                            !.serializer = w.serializer,
                            !.ioFailed = w.ioFailed,
                            !.last = "handle"]
  /\ err' = w.err
  /\ UNCHANGED <<factory, handle, other, pc, exit, got>>

\* An explicit handle[Symbol.dispose]() after the block was left.
DisposeAgain == disposeAgain(write(handle, file, FALSE))

NextLifetime ==
  \/ \E options \in Options(factory) : Construct(options)
  \/ \E value \in SetValues(factory) : SetData(value)
  \/ ExitScope("normal", FALSE)
  \/ \E value \in LateValues(factory) : SetDataDisposed(value)
  \/ DisposeAgain

SpecLifetime == Init /\ [][NextLifetime]_vars

\* ------------------------------------------------ two handles on one path
\* Another caller opens the same path with the same factory and default
\* options while the first caller has not left its block.
otherConstruct(r) ==
  /\ pc \in {"start", "body"}
  /\ other.state = "none"
  /\ ~r.threw
  /\ other' = [state |-> "open", parseOptions |-> factory,
               options |-> resolveOptions(DefaultOptions), data |-> r.data,
               oldData |-> r.data, text |-> r.text, shared |-> TRUE]
  /\ trace' = [trace EXCEPT !.both = @ \/ pc = "body"]
  /\ UNCHANGED <<file, factory, handle, pc, exit, err, got>>
OtherConstruct ==
  otherConstruct(read(file, factory, resolveOptions(DefaultOptions)))

\* set data(value) on the second handle.
OtherSetData(value) ==
  /\ other.state = "open"
  /\ value # other.data
  /\ other' = [other EXCEPT !.data = value, !.shared = FALSE]
  /\ UNCHANGED <<file, factory, handle, pc, exit, err, got, trace>>

\* The second handle is disposed; an error of its _write goes to its own
\* caller.
otherDispose(w) ==
  /\ other.state = "open"
  /\ other' = [other EXCEPT !.state = "disposed"]
  /\ file' = w.file
  /\ trace' = [trace EXCEPT !.last = "other", !.otherWrote = w.wrote]
  /\ UNCHANGED <<factory, handle, pc, exit, err, got>>
OtherDispose == otherDispose(write(other, file, FALSE))

NextShared ==
  \/ Construct(DefaultOptions)
  \/ \E value \in SetValues(factory) : SetData(value)
  \/ ExitScope("normal", FALSE)
  \/ OtherConstruct
  \/ \E value \in LateValues(factory) : OtherSetData(value)
  \/ OtherDispose

SpecShared == Init /\ [][NextShared]_vars

\* Opening alone, under every combination of the options.
AllOptions(po) ==
  [validator : Validators(po), allowNoExist : OptionalBool,
   allowValidatorFailure : OptionalBool]
NextOpen == \E options \in AllOptions(factory) : Construct(options)
SpecOpen == Init /\ [][NextOpen]_vars

\* ------------------------------------------------------------------ claims
Disposed == pc = "done" /\ handle.state = "disposed"
Serialized == CallStringify(handle.parseOptions, handle.data)

\* C1: the write-on-close runs on every exit path of the `using` block
\* (normal completion, return, exception): once the block is left _write
\* has run exactly once, and whenever the data is not absent at that point
\* (and writeFileSync itself does not fail) the file has been written.
ScopedRelease1 ==
  (pc = "done" /\ handle.state # "none") =>
    /\ handle.state = "disposed"
    /\ trace.disposals = 1
    /\ exit \in ExitKinds
    /\ (~IsNullish(handle.data) /\ ~trace.ioFailed) => trace.wrote

\* C2: a write at disposal that does not go through preserveFormat leaves
\* exactly stringify(data) in the file, nothing of the earlier content; in
\* particular a missing file opened with default options, given data and
\* disposed, holds exactly stringify(data).
StringifyWrite2 ==
  Disposed =>
    /\ (trace.wrote /\ trace.serializer = "stringify") => file = File(Serialized)
    /\ (/\ ~trace.opened.exists
        /\ trace.given = DefaultOptions
        /\ ~IsNullish(handle.data)
        /\ ~trace.ioFailed) => file = File(Serialized)

WitnessStringifyWrite2 ==
  /\ Disposed
  /\ ~trace.opened.exists
  /\ trace.given = DefaultOptions
  /\ trace.wrote
  /\ trace.serializer = "stringify"
  /\ factory = createLimoToml
  /\ file.content = TomlProp("a", "1")

\* C3: disposal writes the file if and only if the data is not absent at
\* that time; with absent data the file is as the constructor found it.
WriteIffPresent3 ==
  (Disposed /\ ~trace.ioFailed) =>
    /\ trace.wrote <=> ~IsNullish(handle.data)
    /\ IsNullish(handle.data) => file = trace.opened

\* C4: when the validator rejects what was parsed and allowValidatorFailure
\* is false or omitted, the constructor raises a ValidationFailure, there is
\* no handle, and the file is unchanged.
StrictGate4 ==
  [][(/\ pc = "start"
      /\ trace'.outcome = "rejected"
      /\ trace'.given.allowValidatorFailure # "true") =>
       /\ err'.kind = ValidationFailure
       /\ handle'.state = "none"
       /\ file' = file]_vars

\* C5: a validator rejection is not reported with the error kind of a
\* parser failure: the caller can tell the two apart by the kind raised.
DistinctKinds5 ==
  (pc = "done" /\ handle.state = "none") =>
    /\ trace.outcome = "parse error" => err.kind = ParseFailure
    /\ trace.outcome = "rejected" => err.kind # ParseFailure

\* C6: when the validator rejects what was parsed and allowValidatorFailure
\* is true, the constructor succeeds with absent data; if data is then
\* assigned and the handle disposed the file holds stringify(data), and if
\* data is never assigned the file is unchanged.
PermissiveGate6 ==
  (trace.outcome = "rejected" /\ trace.given.allowValidatorFailure = "true") =>
    /\ handle.state # "none"
    /\ (pc = "body" /\ handle.shared) => handle.data = Undefined
    /\ (Disposed /\ ~trace.ioFailed) =>
         IF handle.shared \/ IsNullish(handle.data)
           THEN file = trace.opened
           ELSE file = File(Serialized)

WitnessPermissiveGate6 ==
  /\ trace.outcome = "rejected"
  /\ trace.given.allowValidatorFailure = "true"
  /\ Disposed
  /\ ~handle.shared
  /\ trace.wrote
  /\ file # trace.opened

\* C7: for every built-in format, after data is assigned a value and the
\* handle is disposed, a new handle on the same path (default options)
\* opens with data deep-equal to that value.
RoundTrip7 ==
  (/\ Disposed
   /\ factory \in BuiltIn
   /\ ~handle.shared
   /\ ~IsNullish(handle.data)
   /\ ~trace.ioFailed) =>
    LET reopened == read(file, factory, resolveOptions(DefaultOptions))
    IN ~reopened.threw /\ DeepEqual(reopened.data, handle.data)

\* C8: a change made in place to the object `get data` returned, with no
\* call of the setter, is persisted: after disposal the file parses to the
\* changed value.
InPlacePersisted8 ==
  (Disposed /\ handle.shared /\ trace.mutations > 0 /\ ~trace.ioFailed) =>
    /\ trace.wrote
    /\ DeepEqual(CallParse(handle.parseOptions, file.content).value, handle.data)

\* C9: a JSONC handle that loaded an object from an existing file, was
\* assigned any object and was disposed leaves a file that parses to the
\* assigned object, the value stringify of it parses to.
PreserveValue9 ==
  (/\ Disposed
   /\ factory = createLimoJsonc
   /\ trace.outcome = "loaded"
   /\ trace.mutations = 0
   /\ ~handle.shared
   /\ handle.data.t = "object"
   /\ ~trace.ioFailed) =>
    /\ trace.wrote
    /\ DeepEqual(JsoncParse(file.content).value, handle.data)
    /\ DeepEqual(JsoncParse(file.content).value,
                 JsoncParse(JsonStringify(handle.data)).value)

\* C10: opening a path that does not exist fails with NotFound and without
\* a handle when allowNoExist is false, and otherwise (true, or omitted)
\* succeeds with absent data and absent text; the file is not created by
\* the open in either case.
OpenMissing10 ==
  [][(pc = "start" /\ ~file.exists) =>
       /\ file' = file
       /\ IF trace'.given.allowNoExist = "false"
            THEN /\ handle'.state = "none"
                 /\ err'.kind = NotFound
                 /\ pc' = "done"
            ELSE /\ handle'.state = "open"
                 /\ handle'.data = Undefined
                 /\ handle'.text = NoText
                 /\ err' = NoError
                 /\ pc' = "body"]_vars

WitnessOpenMissing10 ==
  /\ ~trace.opened.exists
  /\ ~file.exists
  /\ trace.given.allowNoExist = "omitted"
  /\ handle.state = "open"
  /\ handle.data = Undefined
  /\ handle.text = NoText

ParseThrows12 ==
  (/\ pc # "start"
   /\ trace.opened.exists
   /\ ~IsBlank(trace.opened.content)
   /\ ~CallParse(factory, trace.opened.content).ok) =>
    /\ pc = "done"
    /\ exit = "throw"
    /\ handle = NoHandle
    /\ err = Error(ParseFailure, "SyntaxError")
    /\ trace.writes = 0
    /\ file = trace.opened

WitnessParseThrows12 ==
  /\ pc = "done"
  /\ factory = createLimoJson
  /\ trace.opened = File(<<"{", "a", ":", "1">>)
  /\ trace.calls = <<"parse">>
  /\ err.kind = ParseFailure
  /\ handle.state = "none"

\* C13: the validator is not run by the setter: a value the configured
\* validator rejects, once assigned, is the handle's data, and at disposal
\* it is written, with no validation error raised.
SetterUnvalidated13 ==
  (/\ Disposed
   /\ ~handle.shared
   /\ trace.given.validator # "none"
   /\ ~IsNullish(handle.data)
   /\ ~Validate(trace.given.validator, handle.data)
   /\ ~trace.ioFailed) =>
    /\ trace.calls \in {<<>>, <<"parse", "validator">>}
    /\ err.cause # ValidationFailure
    /\ trace.wrote
    /\ DeepEqual(CallParse(factory, file.content).value, handle.data)

OneWrite15 == trace.writes <= 1

SerializerChoice17 ==
  Disposed =>
    /\ trace.serializer =
         IF IsNullish(handle.data) THEN "none"
         ELSE IF /\ factory.preserveFormat # "none"
                 /\ handle.text # NoText
                 /\ ~IsNullish(handle.oldData)
           THEN "preserveFormat"
         ELSE "stringify"
    /\ (trace.outcome \in {"blank", "rejected", "missing"}
          /\ ~IsNullish(handle.data)) => trace.serializer = "stringify"
    /\ trace.serializer = "preserveFormat" =>
         (factory = createLimoJsonc /\ trace.outcome = "loaded")

WitnessSerializerChoice17 ==
  /\ Disposed
  /\ factory = createLimoJsonc
  /\ trace.outcome = "blank"
  /\ handle.text = SomeText(<<" ">>)
  /\ ~IsNullish(handle.data)
  /\ trace.serializer = "stringify"
  /\ trace.wrote

\* C18: when the serializer or writeFileSync throws during disposal, the
\* caller gets `Failed to write` with the cause as the scope exits (as the
\* error of the SuppressedError the runtime builds when the block was
\* itself left by an exception); the error is never dropped, _write is
\* not run again and the file is left as it was.  A disposal that wrote
\* raises no such error.
WriteFailureRaised18 ==
  Disposed =>
    IF ~IsNullish(handle.data) /\ (serialize(handle).threw \/ trace.ioFailed)
      THEN /\ ~trace.wrote
           /\ trace.disposals = 1
           /\ trace.writes = 0
           /\ file = trace.opened
           /\ IF exit = "throw"
                THEN err = Error("SuppressedError", WriteFailure)
                ELSE /\ err.kind = WriteFailure
                     /\ err.cause = IF trace.ioFailed THEN "writeFileSync"
                                    ELSE "Error: Overlapping edit"
      ELSE err.kind \notin {WriteFailure, "SuppressedError"}

WitnessWriteFailureRaised18 ==
  /\ Disposed
  /\ exit = "return"
  /\ factory = createLimoJsonc
  /\ ~IsNullish(handle.data)
  /\ serialize(handle).threw
  /\ err = Error(WriteFailure, "Error: Overlapping edit")
  /\ file = trace.opened

LastWriterWins20 ==
  (/\ Disposed
   /\ other.state = "disposed"
   /\ trace.both
   /\ ~IsNullish(handle.data)
   /\ ~IsNullish(other.data)) =>
    file = File(serialize(IF trace.last = "handle" THEN handle ELSE other).text)

\* C21: for every built-in format, a handle that loaded a value from an
\* existing file and is disposed with the data untouched leaves a file
\* that the adapter parses to the value that was loaded.
OpenDisposeIdempotent21 ==
  (/\ Disposed
   /\ factory \in BuiltIn
   /\ trace.outcome = "loaded"
   /\ handle.shared
   /\ trace.mutations = 0
   /\ ~trace.ioFailed) =>
    /\ file.exists
    /\ err.kind \notin {WriteFailure, "SuppressedError"}
    /\ handle.data = CallParse(factory, trace.opened.content).value
    /\ DeepEqual(CallParse(factory, file.content).value, handle.data)

WitnessOpenDisposeIdempotent21 ==
  /\ Disposed
  /\ factory = createLimoJsonc
  /\ trace.opened = File(<<"{", "a", ":", " ", "1", ",", " ", "}", " ", "//c">>)
  /\ handle.shared
  /\ trace.mutations = 0
  /\ trace.wrote
  /\ file # trace.opened
  /\ handle.data = Obj(<<"a", "1">>)

\* The comments of a text, and the top-level keys of a JSONC text that
\* are among ks, both in text order.
CommentsOf(text) == SelectSeq(text, LAMBDA tok : tok \in Comments)
KeysIn(text, ks) ==
  SelectSeq([i \in 1..Len(ParseTree(text).props) |->
               ParseTree(text).props[i].key],
            LAMBDA k : k \in ks)

\* C22: the text preserveFormat produces from oldText, the value oldText
\* parses to and newValue has the comments of oldText, and has the
\* top-level keys present in both values in the order they have in oldText.
PreserveStructure22 ==
  (/\ Disposed
   /\ trace.serializer = "preserveFormat"
   /\ trace.wrote
   /\ handle.oldData = JsoncParse(handle.text.s).value) =>
    /\ CommentsOf(file.content) = CommentsOf(handle.text.s)
    /\ KeysIn(file.content, KeySet(handle.oldData) \cap KeySet(handle.data))
         = KeysIn(handle.text.s, KeySet(handle.oldData) \cap KeySet(handle.data))

\* C23: the snapshot #oldData is the value loaded by the constructor
\* whatever the caller does to the data, by the setter or in place; so a
\* JSONC handle whose loaded object had a key deleted in place writes, at
\* disposal, a file that parses to an object without that key.
Snapshot23 ==
  handle.state # "none" =>
    LET loaded == read(trace.opened, factory, handle.options).data
    IN /\ handle.oldData = loaded
       /\ (/\ Disposed
           /\ factory = createLimoJsonc
           /\ loaded.t = "object"
           /\ handle.data.t = "object"
           /\ ~trace.ioFailed) =>
            \A k \in KeySet(loaded) \ KeySet(handle.data) :
              ~HasOwn(JsoncParse(file.content).value, k)

OrderIndependent25 ==
  (/\ Disposed
   /\ trace.serializer = "preserveFormat"
   /\ handle.oldData = JsoncParse(handle.text.s).value) =>
    \A old, new \in ObjectsUpTo(MaxProps) :
      (DeepEqual(old, handle.oldData) /\ DeepEqual(new, handle.data)) =>
        JsoncPreserveFormat(handle.text.s, old, new)
          = JsoncPreserveFormat(handle.text.s, handle.oldData, handle.data)

\* ------------------------------------------------- malformed JSONC content

\* Content that the grammar of the adapter's format rejects.  For JSONC the
\* grammar is JSON's once the comments are taken out; for the other
\* structured formats it is what the adapter's parser rejects.
SyntacticallyInvalid(po, text) ==
  CASE po.parse = "jsonc" -> ~JsonParse(StripTokens(text, Comments)).ok
    [] po.parse \in {"json", "toml", "yaml"} -> ~CallParse(po, text).ok
    [] OTHER -> FALSE

\* C26: with any built-in structured adapter, JSONC included, construction
\* on non-blank content that is syntactically invalid fails with
\* `Failed to parse`: there is no handle, and so no best-effort value.
InvalidRejected26 ==
  (/\ pc # "start"
   /\ factory \in BuiltIn
   /\ trace.opened.exists
   /\ ~IsBlank(trace.opened.content)
   /\ SyntacticallyInvalid(factory, trace.opened.content)) =>
    /\ handle = NoHandle
    /\ exit = "throw"
    /\ err.kind = ParseFailure

\* ------------------------------------------- the file between open and exit

\* C27: only disposal modifies the file.  No step taken by the constructor
\* (whether it succeeds or throws), by `get data`, by `set data` or by a
\* change made to the data in place changes the file; the one step that may
\* is the disposal that ends the block.  So while the block runs the file
\* holds what it held when the handle was opened.
OnlyDisposeWrites27 ==
  [][/\ (file' # file) =>
          (pc = "body" /\ pc' = "done" /\ handle'.state = "disposed")
     /\ (pc = "start") => (file' = file)
     /\ (pc' = "body") => (file' = trace'.opened)]_vars

\* A value was assigned, the block has not ended, the file is as opened.
WitnessOnlyDisposeWrites27 ==
  /\ pc = "body"
  /\ trace.opened.exists
  /\ trace.assigned # Unassigned
  /\ ~IsNullish(handle.data)
  /\ handle.data # handle.oldData
  /\ CallStringify(handle.parseOptions, handle.data) # file.content
  /\ file = trace.opened

\* ------------------------------------------------- the fields of a handle

\* C28: in every state of a constructed handle, a present originalValue
\* comes with a present originalText.  After construction the adapter, the
\* resolved options and originalText never change, and #oldData is never
\* rebound: the value seen through it changes only when the caller changes,
\* in place, the object it still shares with #data.  #data is rebound only
\* by `set data`, to the value assigned.
FieldsFixed28 ==
  /\ [](handle.state # "none" =>
          (~IsNullish(handle.oldData) => handle.text.has))
  /\ [][handle.state # "none" =>
          /\ handle'.state # "none"
          /\ handle'.parseOptions = handle.parseOptions
          /\ handle'.options = handle.options
          /\ handle'.text = handle.text
          /\ (handle'.oldData # handle.oldData) =>
               (/\ handle.shared
                /\ handle'.shared
                /\ handle.data = handle.oldData
                /\ handle'.data = handle'.oldData
                /\ ~IsNullish(handle.oldData))
          /\ (handle'.data # handle.data) =>
               \/ /\ pc = "body"
                  /\ ~handle'.shared
                  /\ trace'.assigned = handle'.data
                  /\ handle'.oldData = handle.oldData
               \/ /\ handle.shared
                  /\ handle'.shared
                  /\ handle'.data = handle'.oldData]_vars

\* A handle that loaded a value, had another one assigned and was disposed.
WitnessFieldsFixed28 ==
  /\ Disposed
  /\ handle.text.has
  /\ ~IsNullish(handle.oldData)
  /\ trace.assigned # Unassigned
  /\ handle.data = trace.assigned
  /\ handle.data # handle.oldData
  /\ trace.wrote

====
